---- MODULE Spec2Model ----
(***************************************************************************)
(* Options_Analyzer: the analytics of src/Analysis.js (price sweeps,       *)
(* Monte Carlo probability of profit, risk/reward and risk score, Greeks,  *)
(* time decay, strategy label) and the payoff loop of                      *)
(* src/StrategyScreen.js; the option selection of src/StrategyScreen.js    *)
(* and the leg form of src/StrategyForm.js.                                *)
(*                                                                         *)
(* Numbers.  Every JavaScript number that carries money, a price or a     *)
(* percentage is held in thousandths (150 is 150000, 0.5 is 500, 0.01 is   *)
(* 10, 100 % is 100000).  Quantities and loop counters are plain integers. *)
(* Strikes, premiums and sweep prices are whole numbers of thousandths, so  *)
(* payoffs are exact; the random price of a trial and the risk/reward      *)
(* quotient are rounded down to the thousandth.  Rounding errors of the    *)
(* doubles themselves are not modelled.  The Black-Scholes Greeks are      *)
(* computed in fixed point to 1/10000 and agree with the doubles to about  *)
(* 0.01; whether a value is finite, NaN or an infinity is exact.           *)
(***************************************************************************)
EXTENDS Integers, Sequences, FiniteSets, TLC

VARIABLES
    strategy,       \* Analysis prop: NoStrategy or [options |-> <<leg, ...>>]
    currentPrice,   \* Analysis prop: the spot price
    analysisData,   \* Analysis state (useState, src/Analysis.js:14)
    draws,          \* the values Math.random() returned to the last analysis run
    fnOptions,      \* argument of the analytics functions applied on their own
    fnPrice,        \* price argument of the payoff loops applied on their own
    fnOut,          \* what the functions returned for fnOptions and fnPrice
    selectedOptions,\* StrategyScreen state (useState, src/StrategyScreen.js:20)
    form,           \* StrategyForm: whether it is shown, its route params and state
    submitted,      \* history: for each leg of selectedOptions, the chain row
                    \* and the formData handleSubmit validated
    screenCurrentPrice, \* StrategyScreen state currentPrice (useState,
                    \* src/StrategyScreen.js:24)
    payoffData      \* StrategyScreen state (useState, src/StrategyScreen.js:21)

vars == <<strategy, currentPrice, analysisData, draws, fnOptions, fnPrice, fnOut,
          selectedOptions, form, submitted, screenCurrentPrice, payoffData>>
screenVars == <<selectedOptions, form, submitted, screenCurrentPrice, payoffData>>

---------------------------------------------------------------------------
(* Math.max, Math.min, Math.abs *)
Max(a, b) == IF a >= b THEN a ELSE b
Min(a, b) == IF a <= b THEN a ELSE b
Abs(a) == IF a < 0 THEN 0 - a ELSE a

---------------------------------------------------------------------------
(* The five payoff loops.  Each is a copy in the source and is translated  *)
(* from its own copy: the per-leg branch, then the forEach accumulation    *)
(* `payoff += optionPayoff * option.quantity` from the first leg on.       *)

\* calculateBreakeven, src/Analysis.js:150-168
BreakevenOptionPayoff(option, price) ==
    IF option.type = "call"
    THEN IF option.action = "buy"
         THEN Max(0, price - option.strike) - option.premium
         ELSE option.premium - Max(0, price - option.strike)
    ELSE IF option.action = "buy"
         THEN Max(0, option.strike - price) - option.premium
         ELSE option.premium - Max(0, option.strike - price)

RECURSIVE BreakevenPayoffUpTo(_, _, _)
BreakevenPayoffUpTo(options, price, n) ==
    IF n = 0 THEN 0
    ELSE BreakevenPayoffUpTo(options, price, n - 1)
         + BreakevenOptionPayoff(options[n], price) * options[n].quantity

BreakevenPayoff(options, price) == BreakevenPayoffUpTo(options, price, Len(options))

\* calculateMaxProfit, src/Analysis.js:185-203
MaxProfitOptionProfit(option, price) ==
    IF option.type = "call"
    THEN IF option.action = "buy"
         THEN Max(0, price - option.strike) - option.premium
         ELSE option.premium - Max(0, price - option.strike)
    ELSE IF option.action = "buy"
         THEN Max(0, option.strike - price) - option.premium
         ELSE option.premium - Max(0, option.strike - price)

\* the accumulation written `profit = ...` instead of `profit += ...`: only
\* the last leg counts
MaxProfitProfitOverwritten(options, price) ==
    IF options = <<>> THEN 0
    ELSE MaxProfitOptionProfit(options[Len(options)], price)
         * options[Len(options)].quantity

RECURSIVE MaxProfitProfitUpTo(_, _, _)
MaxProfitProfitUpTo(options, price, n) ==
    IF n = 0 THEN 0
    ELSE MaxProfitProfitUpTo(options, price, n - 1)
         + MaxProfitOptionProfit(options[n], price) * options[n].quantity

MaxProfitProfit(options, price) == MaxProfitProfitUpTo(options, price, Len(options))

\* calculateMaxLoss, src/Analysis.js:218-236
MaxLossOptionLoss(option, price) ==
    IF option.type = "call"
    THEN IF option.action = "buy"
         THEN Max(0, price - option.strike) - option.premium
         ELSE option.premium - Max(0, price - option.strike)
    ELSE IF option.action = "buy"
         THEN Max(0, option.strike - price) - option.premium
         ELSE option.premium - Max(0, option.strike - price)

RECURSIVE MaxLossLossUpTo(_, _, _)
MaxLossLossUpTo(options, price, n) ==
    IF n = 0 THEN 0
    ELSE MaxLossLossUpTo(options, price, n - 1)
         + MaxLossOptionLoss(options[n], price) * options[n].quantity

MaxLossLoss(options, price) == MaxLossLossUpTo(options, price, Len(options))

\* calculateProbabilityOfProfit, src/Analysis.js:257-276
ProbabilityOptionPayoff(option, randomPrice) ==
    IF option.type = "call"
    THEN IF option.action = "buy"
         THEN Max(0, randomPrice - option.strike) - option.premium
         ELSE option.premium - Max(0, randomPrice - option.strike)
    ELSE IF option.action = "buy"
         THEN Max(0, option.strike - randomPrice) - option.premium
         ELSE option.premium - Max(0, option.strike - randomPrice)

RECURSIVE ProbabilityPayoffUpTo(_, _, _)
ProbabilityPayoffUpTo(options, randomPrice, n) ==
    IF n = 0 THEN 0
    ELSE ProbabilityPayoffUpTo(options, randomPrice, n - 1)
         + ProbabilityOptionPayoff(options[n], randomPrice) * options[n].quantity

ProbabilityPayoff(options, randomPrice) ==
    ProbabilityPayoffUpTo(options, randomPrice, Len(options))

\* the sold put paying on the call side
ScreenOptionPayoffSoldPutAsCall(option, price) ==
    IF option.type = "call"
    THEN IF option.action = "buy"
         THEN Max(0, price - option.strike) - option.premium
         ELSE option.premium - Max(0, price - option.strike)
    ELSE IF option.action = "buy"
         THEN Max(0, option.strike - price) - option.premium
         ELSE option.premium - Max(0, price - option.strike)

\* StrategyScreen.calculatePayoff, src/StrategyScreen.js:87-107
ScreenOptionPayoff(option, price) ==
    IF option.type = "call"
    THEN IF option.action = "buy"
         THEN Max(0, price - option.strike) - option.premium
         ELSE option.premium - Max(0, price - option.strike)
    ELSE IF option.action = "buy"
         THEN Max(0, option.strike - price) - option.premium
         ELSE option.premium - Max(0, option.strike - price)

RECURSIVE ScreenPayoffUpTo(_, _, _)
ScreenPayoffUpTo(options, price, n) ==
    IF n = 0 THEN 0
    ELSE ScreenPayoffUpTo(options, price, n - 1)
         + ScreenOptionPayoff(options[n], price) * options[n].quantity

ScreenPayoff(options, price) ==
    ScreenPayoffUpTo(options, price, Len(options))

---------------------------------------------------------------------------
(* The price sweeps of src/Analysis.js:138-242. *)

SweepLow == 50000       \* for (let price = 50; ...
SweepHigh == 250000     \* ...; price <= 250; ...
BreakevenStep == 500    \* price += 0.5
ProfitStep == 1000      \* price += 1 (calculateMaxProfit)
LossStep == 1000        \* price += 1 (calculateMaxLoss)
Tolerance == 10         \* Math.abs(payoff) < 0.01

(* A for loop is written as the run of its iterations first..last, entered *)
(* with the value of its accumulator: the first half of the run, then the  *)
(* second half entered with what the first half left.  The body tests the  *)
(* loop condition itself, and the run goes one iteration past the last     *)
(* price, where the condition fails.  (TLC evaluates a LET lazily; the     *)
(* test `half = half` makes it finish the first half before the second.)   *)

LastIteration(step) == (SweepHigh - SweepLow) \div step + 1

\* a sample is dropped when the sample before it was reported
BreakevenBodyDeduplicated(options, price, breakevens) ==
    IF price <= SweepHigh
    THEN IF /\ Abs(BreakevenPayoff(options, price)) < Tolerance
            /\ \/ breakevens = <<>>
               \/ breakevens[Len(breakevens)] # price - BreakevenStep
         THEN Append(breakevens, price)
         ELSE breakevens
    ELSE breakevens

\* one iteration of the loop of calculateBreakeven, src/Analysis.js:147-173
BreakevenBody(options, price, breakevens) ==
    IF price <= SweepHigh
    THEN IF Abs(BreakevenPayoff(options, price)) < Tolerance
         THEN Append(breakevens, price)
         ELSE breakevens
    ELSE breakevens

RECURSIVE BreakevenLoop(_, _, _, _)
BreakevenLoop(options, first, last, breakevens) ==
    IF first = last
    THEN BreakevenBody(options, SweepLow + first * BreakevenStep, breakevens)
    ELSE LET mid == (first + last) \div 2
             half == BreakevenLoop(options, first, mid, breakevens)
         IN  IF half = half THEN BreakevenLoop(options, mid + 1, last, half) ELSE half

\* (totalPremium, src/Analysis.js:142-144, is computed and never read)
calculateBreakeven(options) ==
    BreakevenLoop(options, 0, LastIteration(BreakevenStep), <<>>)

\* one iteration of the loop of calculateMaxProfit, src/Analysis.js:182-206
MaxProfitBody(options, price, maxProfit) ==
    IF price <= SweepHigh
    THEN Max(maxProfit, MaxProfitProfit(options, price))
    ELSE maxProfit

RECURSIVE MaxProfitLoop(_, _, _, _)
MaxProfitLoop(options, first, last, maxProfit) ==
    IF first = last
    THEN MaxProfitBody(options, SweepLow + first * ProfitStep, maxProfit)
    ELSE LET mid == (first + last) \div 2
             half == MaxProfitLoop(options, first, mid, maxProfit)
         IN  IF half = half THEN MaxProfitLoop(options, mid + 1, last, half) ELSE half

\* the running maximum seeded with the first sample instead of 0
calculateMaxProfitUnseeded(options) ==
    MaxProfitLoop(options, 0, LastIteration(ProfitStep),
                  MaxProfitProfit(options, SweepLow))

calculateMaxProfit(options) ==
    MaxProfitLoop(options, 0, LastIteration(ProfitStep), 0)

\* the sweep stopping before the last price
MaxLossBodyExclusive(options, price, maxLoss) ==
    IF price < SweepHigh
    THEN Min(maxLoss, MaxLossLoss(options, price))
    ELSE maxLoss

\* one iteration of the loop of calculateMaxLoss, src/Analysis.js:215-239
MaxLossBody(options, price, maxLoss) ==
    IF price <= SweepHigh
    THEN Min(maxLoss, MaxLossLoss(options, price))
    ELSE maxLoss

RECURSIVE MaxLossLoop(_, _, _, _)
MaxLossLoop(options, first, last, maxLoss) ==
    IF first = last
    THEN MaxLossBody(options, SweepLow + first * LossStep, maxLoss)
    ELSE LET mid == (first + last) \div 2
             half == MaxLossLoop(options, first, mid, maxLoss)
         IN  IF half = half THEN MaxLossLoop(options, mid + 1, last, half) ELSE half

calculateMaxLoss(options) ==
    MaxLossLoop(options, 0, LastIteration(LossStep), 0)

---------------------------------------------------------------------------
(* calculateProbabilityOfProfit, src/Analysis.js:244-284.                  *)
(* `random` is what Math.random() returns to the run: a sequence of values *)
(* of [0, 1) in thousandths, read cyclically by the trials.                *)

Volatility == 200            \* const volatility = 0.2
SqrtTimeToExpiry == 28669    \* Math.sqrt(30 / 365) = 0.28669, in 1/100000
numSimulations == 1000       \* const numSimulations = 1000

\* Math.exp for |x| < 0.1, x and the result in 1/100000: the series to x^3/6
Exp(x) ==
    LET square == (x * x) \div 200000
    IN  100000 + x + square + (square * x) \div 300000

\* currentPrice * Math.exp((Math.random() - 0.5) * volatility * Math.sqrt(timeToExpiry) * 2)
RandomPrice(spotPrice, u) ==
    LET x == ((((u - 500) * 2 * SqrtTimeToExpiry) \div 1000) * Volatility) \div 1000
    IN  spotPrice + (spotPrice * (Exp(x) - 100000)) \div 100000

RandomAt(random, i) == random[(i % Len(random)) + 1]

\* a trial with a payoff of exactly zero counted as profitable
SimulationBodyNonNegative(options, spotPrice, random, i, profitableOutcomes) ==
    IF i < numSimulations
    THEN IF ProbabilityPayoff(options, RandomPrice(spotPrice, RandomAt(random, i))) >= 0
         THEN profitableOutcomes + 1
         ELSE profitableOutcomes
    ELSE profitableOutcomes

\* one trial of the simulation loop, src/Analysis.js:252-281
SimulationBody(options, spotPrice, random, i, profitableOutcomes) ==
    IF i < numSimulations
    THEN IF ProbabilityPayoff(options, RandomPrice(spotPrice, RandomAt(random, i))) > 0
         THEN profitableOutcomes + 1
         ELSE profitableOutcomes
    ELSE profitableOutcomes

RECURSIVE SimulationLoop(_, _, _, _, _, _)
SimulationLoop(options, spotPrice, random, first, last, profitableOutcomes) ==
    IF first = last
    THEN SimulationBody(options, spotPrice, random, first, profitableOutcomes)
    ELSE LET mid == (first + last) \div 2
             half == SimulationLoop(options, spotPrice, random, first, mid,
                                    profitableOutcomes)
         IN  IF half = half
             THEN SimulationLoop(options, spotPrice, random, mid + 1, last, half)
             ELSE half

\* (profitableOutcomes / numSimulations) * 100, a percentage in thousandths
calculateProbabilityOfProfit(options, spotPrice, random) ==
    (SimulationLoop(options, spotPrice, random, 0, numSimulations, 0) * 100000)
        \div numSimulations

---------------------------------------------------------------------------
(* determineStrategyType, src/Analysis.js:553-579 *)

\* options.filter(opt => opt[field] === value).length
Count(options, field, value) ==
    Cardinality({n \in 1..Len(options) : options[n][field] = value})

\* two legs told apart by action instead of type
determineStrategyTypeByAction(strat) ==
    IF ~strat.defined THEN "Unknown"
    ELSE LET options == strat.options
             callOptions == Count(options, "type", "call")
             buyOptions == Count(options, "action", "buy")
             sellOptions == Count(options, "action", "sell")
         IN  IF Len(options) = 1
             THEN IF buyOptions = 1
                  THEN (IF callOptions = 1 THEN "Long Call" ELSE "Long Put")
                  ELSE (IF callOptions = 1 THEN "Short Call" ELSE "Short Put")
             ELSE IF Len(options) = 2
             THEN IF buyOptions = 2 THEN "Call Spread"
                  ELSE IF sellOptions = 2 THEN "Put Spread"
                  ELSE "Straddle/Strangle"
             ELSE "Complex Strategy"

\* a single put labelled without looking at its action
determineStrategyTypePutAlwaysLong(strat) ==
    IF ~strat.defined THEN "Unknown"
    ELSE LET options == strat.options
             callOptions == Count(options, "type", "call")
             putOptions == Count(options, "type", "put")
             buyOptions == Count(options, "action", "buy")
         IN  IF Len(options) = 1
             THEN IF callOptions = 1
                  THEN (IF buyOptions = 1 THEN "Long Call" ELSE "Short Call")
                  ELSE "Long Put"
             ELSE IF Len(options) = 2
             THEN IF callOptions = 2 THEN "Call Spread"
                  ELSE IF putOptions = 2 THEN "Put Spread"
                  ELSE "Straddle/Strangle"
             ELSE "Complex Strategy"

determineStrategyType(strat) ==
    IF ~strat.defined THEN "Unknown"
    ELSE LET options == strat.options
             callOptions == Count(options, "type", "call")
             putOptions == Count(options, "type", "put")
             buyOptions == Count(options, "action", "buy")
         IN  IF Len(options) = 1
             THEN IF buyOptions = 1
                  THEN (IF callOptions = 1 THEN "Long Call" ELSE "Long Put")
                  ELSE (IF callOptions = 1 THEN "Short Call" ELSE "Short Put")
             ELSE IF Len(options) = 2
             THEN IF callOptions = 2 THEN "Call Spread"
                  ELSE IF putOptions = 2 THEN "Put Spread"
                  ELSE "Straddle/Strangle"
             ELSE "Complex Strategy"

---------------------------------------------------------------------------
(* JavaScript's `/` on numbers: a finite quotient (in thousandths), or the *)
(* non-finite values a zero divisor gives.  src/Analysis.js:47             *)
Finite(v) == [kind |-> "finite", value |-> v]
NaN == [kind |-> "NaN", value |-> 0]
Infinity == [kind |-> "Infinity", value |-> 0]
MinusInfinity == [kind |-> "-Infinity", value |-> 0]

Divide(a, b) ==
    IF b # 0 THEN Finite((a * 1000) \div b)
    ELSE IF a = 0 THEN NaN
    ELSE IF a > 0 THEN Infinity
    ELSE MinusInfinity

---------------------------------------------------------------------------
(* JavaScript's arithmetic on the values of `/`.  NaN makes every          *)
(* operation NaN; the infinities order and combine as in IEEE 754.  A zero *)
(* divisor is +0 (every divisor of the program is a product of             *)
(* non-negative numbers).                                                  *)

MathMin(a, b) ==
    IF a.kind = "NaN" \/ b.kind = "NaN" THEN NaN
    ELSE IF a.kind = "-Infinity" \/ b.kind = "-Infinity" THEN MinusInfinity
    ELSE IF a.kind = "Infinity" THEN b
    ELSE IF b.kind = "Infinity" THEN a
    ELSE Finite(Min(a.value, b.value))

MathMax(a, b) ==
    IF a.kind = "NaN" \/ b.kind = "NaN" THEN NaN
    ELSE IF a.kind = "Infinity" \/ b.kind = "Infinity" THEN Infinity
    ELSE IF a.kind = "-Infinity" THEN b
    ELSE IF b.kind = "-Infinity" THEN a
    ELSE Finite(Max(a.value, b.value))

\* the sign of a value that is not NaN
SignOf(a) ==
    IF a.kind = "Infinity" THEN 1
    ELSE IF a.kind = "-Infinity" THEN -1
    ELSE IF a.value > 0 THEN 1
    ELSE IF a.value < 0 THEN -1
    ELSE 0

Signed(sign) ==
    IF sign > 0 THEN Infinity ELSE IF sign < 0 THEN MinusInfinity ELSE NaN

\* -a
Negate(a) ==
    IF a.kind = "finite" THEN Finite(0 - a.value)
    ELSE IF a.kind = "Infinity" THEN MinusInfinity
    ELSE IF a.kind = "-Infinity" THEN Infinity
    ELSE NaN

\* a + b
Plus(a, b) ==
    IF a.kind = "NaN" \/ b.kind = "NaN" THEN NaN
    ELSE IF a.kind = "finite" /\ b.kind = "finite" THEN Finite(a.value + b.value)
    ELSE IF a.kind = "finite" THEN b
    ELSE IF b.kind = "finite" THEN a
    ELSE IF a.kind = b.kind THEN a
    ELSE NaN

\* a - b
Minus(a, b) == Plus(a, Negate(b))

\* a * k for an integer k
Times(a, k) ==
    IF a.kind = "NaN" THEN NaN
    ELSE IF a.kind = "finite" THEN Finite(a.value * k)
    ELSE Signed(SignOf(a) * k)

\* a * b, b held in 1/scale
Multiply(a, b, scale) ==
    IF a.kind = "NaN" \/ b.kind = "NaN" THEN NaN
    ELSE IF a.kind = "finite" /\ b.kind = "finite"
    THEN Finite((a.value * b.value) \div scale)
    ELSE Signed(SignOf(a) * SignOf(b))

\* a / b, b held in 1/scale
Quotient(a, b, scale) ==
    IF a.kind = "NaN" \/ b.kind = "NaN" THEN NaN
    ELSE IF a.kind = "finite" /\ b.kind = "finite"
    THEN IF b.value # 0 THEN Finite((a.value * scale) \div b.value)
         ELSE Signed(SignOf(a))
    ELSE IF a.kind = "finite" THEN Finite(0)
    ELSE IF b.kind = "finite" THEN Signed(SignOf(a) * (IF b.value < 0 THEN -1 ELSE 1))
    ELSE NaN

---------------------------------------------------------------------------
(* calculateBlackScholesGreeks, src/Analysis.js:90-136, in fixed point.    *)
(* Prices (S, K) are held in thousandths, sigma in thousandths, T in       *)
(* millionths of a year, and every dimensionless quantity (r, d1, d2, the  *)
(* normal density and distribution, the square root of T) in 1/Unit.  The  *)
(* five Greeks are returned in 1/Unit.  Every quantity is a value of       *)
(* JavaScript arithmetic: finite, NaN or an infinity.                      *)

Unit == 10000
Million == 1000000

\* Math.sqrt(n) for an integer n >= 0, rounded down: bisection on [low, high]
RECURSIVE SqrtBetween(_, _, _)
SqrtBetween(n, low, high) ==
    IF low >= high THEN low
    ELSE LET mid == (low + high + 1) \div 2
         IN  IF mid * mid <= n THEN SqrtBetween(n, mid, high)
             ELSE SqrtBetween(n, low, mid - 1)

\* Math.sqrt(T), T in millionths, the root in 1/Unit
MathSqrt(T) == SqrtBetween(T * 100, 0, 40000)

\* Math.exp(-n) for an integer n >= 0, in 1/Unit
ExpOfMinus(n) ==
    IF n > 9 THEN 0
    ELSE <<10000, 3679, 1353, 498, 183, 67, 25, 9, 3, 1>>[n + 1]

\* Math.exp(-y) for y >= 0, y and the result in 1/Unit: exp(-n) of the
\* integer part times the series to the 7th power of the fractional part
MathExpMinus(y) ==
    LET f == y % Unit
        f2 == (f * f) \div Unit
        f3 == (f2 * f) \div Unit
        f4 == (f3 * f) \div Unit
        f5 == (f4 * f) \div Unit
        f6 == (f5 * f) \div Unit
        f7 == (f6 * f) \div Unit
        series == Unit - f + (f2 \div 2) - (f3 \div 6) + (f4 \div 24)
                  - (f5 \div 120) + (f6 \div 720) - (f7 \div 5040)
    IN  (ExpOfMinus(y \div Unit) * series) \div Unit

\* Math.log(S / K) for S >= 0 and K > 0, in 1/Unit: 2 artanh((S - K)/(S + K))
\* by its series to the 13th power; Math.log(0) is -Infinity
MathLog(S, K) ==
    IF S = 0 THEN MinusInfinity
    ELSE LET z == ((S - K) * 1000) \div ((S + K) \div 10)
             z2 == (z * z) \div Unit
             z3 == (z * z2) \div Unit
             z5 == (z3 * z2) \div Unit
             z7 == (z5 * z2) \div Unit
             z9 == (z7 * z2) \div Unit
             z11 == (z9 * z2) \div Unit
             z13 == (z11 * z2) \div Unit
         IN  Finite(2 * (z + (z3 \div 3) + (z5 \div 5) + (z7 \div 7)
                         + (z9 \div 9) + (z11 \div 11) + (z13 \div 13)))

\* beyond this |x| the density and the tail of the distribution are below 1/Unit
Negligible == 45000

\* Math.exp(-0.5 * x * x) for a finite x in 1/Unit
ExpMinusHalfSquare(x) ==
    IF Abs(x) >= Negligible THEN 0
    ELSE MathExpMinus((x * x) \div (2 * Unit))

\* normPDF, src/Analysis.js:98-100: Math.sqrt(2 * Math.PI) = 2.5066
normPDF(x) ==
    IF x.kind = "NaN" THEN NaN
    ELSE IF x.kind # "finite" THEN Finite(0)
    ELSE Finite((ExpMinusHalfSquare(x.value) * Unit) \div 25066)

\* erf, src/Analysis.js:102-118, of x / Math.sqrt(2) for a finite x: the
\* argument is x / 1.4142, and Math.exp(-x * x) of it is exp(-0.5 x^2)
ErfOfOverSqrt2(x) ==
    LET sign == IF x >= 0 THEN 1 ELSE -1
        arg == (Min(Abs(x), Negligible) * Unit) \div 14142
        t == (Unit * Unit) \div (Unit + (3276 * arg) \div Unit)
        p5 == (10614 * t) \div Unit - 14532
        p4 == (p5 * t) \div Unit + 14214
        p3 == (p4 * t) \div Unit - 2845
        p2 == (p3 * t) \div Unit + 2548
        p1 == (p2 * t) \div Unit
        y == Unit - (p1 * ExpMinusHalfSquare(x)) \div Unit
    IN  sign * y

\* normCDF, src/Analysis.js:94-96: erf is 1 at Infinity and -1 at -Infinity
normCDF(x) ==
    IF x.kind = "NaN" THEN NaN
    ELSE IF x.kind = "Infinity" THEN Finite(Unit)
    ELSE IF x.kind = "-Infinity" THEN Finite(0)
    ELSE Finite((Unit + ErfOfOverSqrt2(x.value)) \div 2)

calculateBlackScholesGreeks(S, K, T, r, sigma, optionType) ==
    LET vol == Finite(sigma * 10)
        sqrtT == Finite(MathSqrt(T))
        volSqrtT == Multiply(vol, sqrtT, Unit)
        drift == ((r + (vol.value * vol.value) \div (2 * Unit)) * T) \div Million
        d1 == Quotient(Plus(MathLog(S, K), Finite(drift)), volSqrtT, Unit)
        d2 == Minus(d1, volSqrtT)
        discount == Finite(MathExpMinus((r * T) \div Million))
        \* (S * normPDF(d1) * sigma) / (2 * Math.sqrt(T)), in thousandths
        decay == Quotient(Multiply(Multiply(Finite(S), normPDF(d1), Unit), vol, Unit),
                          Times(sqrtT, 2), Unit)
        \* r * K * Math.exp(-r * T), in thousandths
        carry == Multiply(Multiply(Finite(K), Finite(r), Unit), discount, Unit)
        \* K * T * Math.exp(-r * T), in thousandths
        KT == Multiply(Multiply(Finite(K), Finite(T \div 100), Unit), discount, Unit)
        delta == IF optionType = "call" THEN normCDF(d1)
                 ELSE Minus(normCDF(d1), Finite(Unit))
        theta == IF optionType = "call"
                 THEN Minus(Negate(decay), Multiply(carry, normCDF(d2), Unit))
                 ELSE Plus(Negate(decay), Multiply(carry, normCDF(Negate(d2)), Unit))
        rho == IF optionType = "call"
               THEN Multiply(KT, normCDF(d2), Unit)
               ELSE Negate(Multiply(KT, normCDF(Negate(d2)), Unit))
        gamma == Quotient(normPDF(d1),
                          Multiply(Finite(S), volSqrtT, Unit), 1000)
        vega == Multiply(Multiply(Finite(S), normPDF(d1), Unit), sqrtT, Unit)
    IN  [delta |-> delta,
         gamma |-> gamma,
         theta |-> Quotient(Times(theta, 10), Finite(365), 1),
         vega |-> Quotient(Times(vega, 10), Finite(100), 1),
         rho |-> Quotient(Times(rho, 10), Finite(100), 1)]

---------------------------------------------------------------------------
(* The constants of calculateGreeks, src/Analysis.js:51-88, and of         *)
(* calculateTimeDecay, src/Analysis.js:286-314, and what they read of a    *)
(* leg.  A leg may come without a volatility field.                        *)

riskFreeRate == 500          \* 0.05, in 1/Unit
DefaultVolatility == 200     \* 0.2, in thousandths
DaysToExpiry == 30

\* days / 365, in millionths of a year
Years(days) == (days * Million) \div 365

\* const { ..., volatility = 0.2 } = option: the default replaces undefined only
DestructuredVolatility(option) ==
    IF "volatility" \in DOMAIN option THEN option.volatility ELSE DefaultVolatility

\* option.volatility || 0.2: the default replaces undefined and 0
VolatilityOrDefault(option) ==
    IF "volatility" \in DOMAIN option /\ option.volatility # 0
    THEN option.volatility
    ELSE DefaultVolatility

\* (action === 'buy' ? 1 : -1) * quantity
Multiplier(option) ==
    (IF option.action = "buy" THEN 1 ELSE -1) * option.quantity

---------------------------------------------------------------------------
(* The legs and strategies the Analysis component is run on. *)

Leg(strike, type, action, quantity, premium) ==
    [strike |-> strike, type |-> type, action |-> action,
     quantity |-> quantity, premium |-> premium, volatility |-> 200]

MaxLegs == 2

Legs ==
    { Leg(150000, "call", "buy", 1, 5000),     \* long call 150 at 5
      Leg(150000, "call", "sell", 1, 5000),    \* short call 150 at 5
      Leg(50000, "put", "sell", 1, 1000) }     \* short put 50 at 1

OptionLists == UNION {[1..n -> Legs] : n \in 0..MaxLegs}

NoStrategy == [defined |-> FALSE, options |-> <<>>]
Strategies == {NoStrategy} \cup {[defined |-> TRUE, options |-> o] : o \in OptionLists}

Spots == {150000, 160000}

\* what Math.random() may return to one run: values of [0, 1) in thousandths,
\* read cyclically by the 1000 trials
RandomRuns == { <<0>>, <<999>>, <<500, 999>>, <<999, 0, 500>> }

---------------------------------------------------------------------------
(* The legs and prices the functions are applied to on their own. *)

FnStrikes == {150000, 152500, 160000, 250000}
FnPremiums == {0, 5, 2000, 5000, 5200}
FnSingles ==
    {Leg(k, t, a, q, p) : k \in FnStrikes, t \in {"call", "put"},
                          a \in {"buy", "sell"}, q \in {1, 2}, p \in FnPremiums}
FnCallSpreads ==
    {<<Leg(k1, "call", "buy", 1, p1), Leg(k2, "call", "sell", 1, p2)>> :
        k1 \in FnStrikes, k2 \in FnStrikes, p1 \in FnPremiums, p2 \in FnPremiums}
FnOthers ==
    { <<>>,
      <<Leg(150000, "put", "buy", 1, 5000), Leg(150000, "call", "buy", 1, 5000)>>,
      <<Leg(160000, "put", "buy", 1, 5200), Leg(150000, "put", "sell", 2, 2000)>>,
      <<Leg(150000, "call", "sell", 2, 5000), Leg(150000, "put", "sell", 1, 5)>>,
      <<Leg(150000, "call", "buy", 1, 5000), Leg(160000, "call", "sell", 2, 2000),
        Leg(160000, "put", "buy", 1, 5200)>> }

\* the leg with another volatility, and as a caller that sets none builds it
WithVolatility(leg, volatility) == [leg EXCEPT !.volatility = volatility]
WithoutVolatility(leg) == [f \in (DOMAIN leg) \ {"volatility"} |-> leg[f]]

\* lists whose legs differ in volatility, a bought and a sold leg otherwise
\* identical among them
FnVolatilityLists ==
    { <<WithVolatility(Leg(150000, "call", "buy", 1, 5000), 500)>>,
      <<WithoutVolatility(Leg(160000, "put", "sell", 2, 2000))>>,
      <<WithVolatility(Leg(152500, "put", "buy", 2, 5200), 350),
        WithVolatility(Leg(152500, "put", "sell", 2, 5200), 350)>>,
      <<WithVolatility(Leg(150000, "call", "buy", 1, 5000), 500),
        Leg(160000, "call", "sell", 1, 2000),
        WithVolatility(Leg(150000, "call", "sell", 1, 5000), 500)>>,
      <<WithoutVolatility(Leg(160000, "put", "sell", 2, 2000)),
        WithVolatility(Leg(150000, "call", "buy", 1, 5000), 350)>> }

FnOptionLists ==
    {<<l>> : l \in FnSingles} \cup FnCallSpreads \cup FnOthers \cup FnVolatilityLists

FnPrices == {0, 50000, 105000, 141643, 155200, 250000}

---------------------------------------------------------------------------
(* calculateGreeks, src/Analysis.js:51-88, and calculateTimeDecay,         *)
(* src/Analysis.js:286-314.                                                *)

AllOptionLists == OptionLists \cup FnOptionLists
AllLegs == UNION {{o[n] : n \in 1..Len(o)} : o \in AllOptionLists}

\* calculateBlackScholesGreeks on every argument the legs and prices of the
\* model give it, tabulated once
Expiries == {Years(days) : days \in 0..DaysToExpiry}
BlackScholesArguments ==
    (Spots \cup FnPrices)
    \X {leg.strike : leg \in AllLegs}
    \X Expiries
    \X ({DestructuredVolatility(leg) : leg \in AllLegs}
        \cup {VolatilityOrDefault(leg) : leg \in AllLegs})
    \X {"call", "put"}
BlackScholesGreeksOf ==
    [a \in BlackScholesArguments |->
        calculateBlackScholesGreeks(a[1], a[2], a[3], riskFreeRate, a[4], a[5])] @@ <<>>

ZeroGreeks ==
    [delta |-> Finite(0), gamma |-> Finite(0), theta |-> Finite(0),
     vega |-> Finite(0), rho |-> Finite(0)]

\* every leg counted as bought
GreeksBodyUnsigned(option, spotPrice, total) ==
    LET greeks == BlackScholesGreeksOf[<<spotPrice, option.strike,
                      Years(DaysToExpiry), DestructuredVolatility(option),
                      option.type>>]
        multiplier == option.quantity
    IN  [delta |-> Plus(total.delta, Times(greeks.delta, multiplier)),
         gamma |-> Plus(total.gamma, Times(greeks.gamma, multiplier)),
         theta |-> Plus(total.theta, Times(greeks.theta, multiplier)),
         vega |-> Plus(total.vega, Times(greeks.vega, multiplier)),
         rho |-> Plus(total.rho, Times(greeks.rho, multiplier))]

\* the body of options.forEach, src/Analysis.js:58-79
GreeksBody(option, spotPrice, total) ==
    LET greeks == BlackScholesGreeksOf[<<spotPrice, option.strike,
                      Years(DaysToExpiry), DestructuredVolatility(option),
                      option.type>>]
        multiplier == Multiplier(option)
    IN  [delta |-> Plus(total.delta, Times(greeks.delta, multiplier)),
         gamma |-> Plus(total.gamma, Times(greeks.gamma, multiplier)),
         theta |-> Plus(total.theta, Times(greeks.theta, multiplier)),
         vega |-> Plus(total.vega, Times(greeks.vega, multiplier)),
         rho |-> Plus(total.rho, Times(greeks.rho, multiplier))]

RECURSIVE GreeksUpTo(_, _, _)
GreeksUpTo(options, spotPrice, n) ==
    IF n = 0 THEN ZeroGreeks
    ELSE GreeksBody(options[n], spotPrice, GreeksUpTo(options, spotPrice, n - 1))

calculateGreeks(options, spotPrice) == GreeksUpTo(options, spotPrice, Len(options))

\* the inner options.forEach of calculateTimeDecay, src/Analysis.js:293-308
RECURSIVE ThetaUpTo(_, _, _, _)
ThetaUpTo(options, spotPrice, timeToExpiry, n) ==
    IF n = 0 THEN Finite(0)
    ELSE LET option == options[n]
             greeks == BlackScholesGreeksOf[<<spotPrice, option.strike,
                           timeToExpiry, VolatilityOrDefault(option),
                           option.type>>]
         IN  Plus(ThetaUpTo(options, spotPrice, timeToExpiry, n - 1),
                  Times(greeks.theta, Multiplier(option)))

\* the loop ended one iteration early: for (let days = 30; days > 0; days--)
RECURSIVE TimeDecayLoopExclusive(_, _, _, _)
TimeDecayLoopExclusive(options, spotPrice, days, timeDecayData) ==
    IF days > 0
    THEN TimeDecayLoopExclusive(options, spotPrice, days - 1,
             Append(timeDecayData,
                    [days |-> DaysToExpiry - days,
                     theta |-> ThetaUpTo(options, spotPrice, Years(days),
                                         Len(options))]))
    ELSE timeDecayData

\* for (let days = 30; days >= 0; days--), src/Analysis.js:289-311
RECURSIVE TimeDecayLoop(_, _, _, _)
TimeDecayLoop(options, spotPrice, days, timeDecayData) ==
    IF days >= 0
    THEN TimeDecayLoop(options, spotPrice, days - 1,
             Append(timeDecayData,
                    [days |-> DaysToExpiry - days,
                     theta |-> ThetaUpTo(options, spotPrice, Years(days),
                                         Len(options))]))
    ELSE timeDecayData

\* currentPrice is the prop the component was rendered with
calculateTimeDecay(options, spotPrice) ==
    TimeDecayLoop(options, spotPrice, DaysToExpiry, <<>>)

---------------------------------------------------------------------------
(* The results of the analytics, one table per function.  (`@@ <<>>` makes *)
(* TLC tabulate the function once instead of at every use.)                *)

BreakevenOf == [o \in AllOptionLists |-> calculateBreakeven(o)] @@ <<>>
MaxProfitOf == [o \in AllOptionLists |-> calculateMaxProfit(o)] @@ <<>>
MaxLossOf == [o \in AllOptionLists |-> calculateMaxLoss(o)] @@ <<>>
GreeksOf ==
    [a \in (OptionLists \ {<<>>}) \X Spots |-> calculateGreeks(a[1], a[2])] @@ <<>>
TimeDecayOf ==
    [a \in (OptionLists \ {<<>>}) \X Spots |-> calculateTimeDecay(a[1], a[2])] @@ <<>>
ProbabilityOfProfitOf ==
    [a \in (OptionLists \ {<<>>}) \X Spots \X RandomRuns |->
        calculateProbabilityOfProfit(a[1], a[2], a[3])] @@ <<>>

---------------------------------------------------------------------------
(* The values of the fields of StrategyForm's formData.  A field holds the *)
(* number it was initialised with, or the text a TextInput gave to         *)
(* handleInputChange: a sequence of characters.  Numbers are held in       *)
(* thousandths, the quantity included (1 is 1000); parseInt returns whole  *)
(* units.  src/StrategyForm.js:18-26, 73-79, 153-217                       *)

Number(v) == [kind |-> "number", value |-> v, text |-> <<>>]
Text(t) == [kind |-> "string", value |-> 0, text |-> t]

Digits == {"0", "1", "2", "3", "4", "5", "6", "7", "8", "9"}
DigitValue(c) ==
    CASE c = "0" -> 0 [] c = "1" -> 1 [] c = "2" -> 2 [] c = "3" -> 3
      [] c = "4" -> 4 [] c = "5" -> 5 [] c = "6" -> 6 [] c = "7" -> 7
      [] c = "8" -> 8 [] c = "9" -> 9

\* the number of leading digits of t
RECURSIVE LeadingDigits(_)
LeadingDigits(t) ==
    IF t # <<>> /\ Head(t) \in Digits THEN 1 + LeadingDigits(Tail(t)) ELSE 0

\* the value of a sequence of digits
RECURSIVE DigitsValue(_)
DigitsValue(t) ==
    IF t = <<>> THEN 0
    ELSE DigitsValue(SubSeq(t, 1, Len(t) - 1)) * 10 + DigitValue(t[Len(t)])

\* the first three decimals of a sequence of digits, in thousandths
Decimals(t) ==
    LET digit(n) == IF n <= Len(t) THEN DigitValue(t[n]) ELSE 0
    IN  digit(1) * 100 + digit(2) * 10 + digit(3)

\* the numeral a text starts with: its sign, integer digits, fraction digits
\* and the number of characters it takes
Numeral(t) ==
    LET negative == t # <<>> /\ Head(t) = "-"
        unsigned == IF negative THEN Tail(t) ELSE t
        whole == SubSeq(unsigned, 1, LeadingDigits(unsigned))
        rest == SubSeq(unsigned, Len(whole) + 1, Len(unsigned))
        point == rest # <<>> /\ Head(rest) = "."
        fraction == IF point
                    THEN SubSeq(Tail(rest), 1, LeadingDigits(Tail(rest)))
                    ELSE <<>>
        \* parseFloat takes the point only with a digit on one of its sides
        taken == (IF negative THEN 1 ELSE 0) + Len(whole)
                 + (IF point /\ Len(whole) + Len(fraction) > 0
                    THEN 1 + Len(fraction) ELSE 0)
    IN  [sign |-> IF negative THEN -1 ELSE 1,
         whole |-> whole,
         fraction |-> fraction,
         digits |-> Len(whole) + Len(fraction),
         taken |-> taken]

\* parseFloat(x): the numeral the text starts with, NaN without a digit
parseFloat(x) ==
    IF x.kind = "number" THEN Finite(x.value)
    ELSE LET n == Numeral(x.text)
         IN  IF n.digits = 0 THEN NaN
             ELSE Finite(n.sign * (DigitsValue(n.whole) * 1000 + Decimals(n.fraction)))

\* parseInt(x): the integer digits the text starts with, NaN without one; a
\* number is converted to text first, which drops its fraction
parseInt(x) ==
    IF x.kind = "number"
    THEN Finite((IF x.value < 0 THEN -1 ELSE 1) * (Abs(x.value) \div 1000))
    ELSE LET n == Numeral(x.text)
         IN  IF Len(n.whole) = 0 THEN NaN
             ELSE Finite(n.sign * DigitsValue(n.whole))

\* the number a text is compared as (ToNumber): 0 for the empty text, the
\* numeral when it is the whole text, NaN otherwise
ToNumber(x) ==
    IF x.kind = "number" THEN Finite(x.value)
    ELSE IF x.text = <<>> THEN Finite(0)
    ELSE LET n == Numeral(x.text)
         IN  IF n.digits > 0 /\ n.taken = Len(x.text) THEN parseFloat(x) ELSE NaN

\* !x : 0 and the empty text are falsy
Falsy(x) ==
    IF x.kind = "number" THEN x.value = 0 ELSE x.text = <<>>

\* x < bound, x <= bound, x > bound: false when x compares as NaN
LessThan(x, bound) ==
    ToNumber(x).kind = "finite" /\ ToNumber(x).value < bound
AtMost(x, bound) ==
    ToNumber(x).kind = "finite" /\ ToNumber(x).value <= bound
MoreThan(x, bound) ==
    ToNumber(x).kind = "finite" /\ ToNumber(x).value > bound

---------------------------------------------------------------------------
(* StrategyForm, src/StrategyForm.js:16-102 *)

\* a || 0 and a || 0.2 on a number of the option chain
OrElse(a, default) == IF a = 0 THEN default ELSE a

\* useState of formData, src/StrategyForm.js:18-26 (expiration, which no
\* check and no analytic reads, is left out)
InitialFormData(option) ==
    [strike |-> Number(option.strike),
     type |-> "call",
     action |-> "buy",
     quantity |-> Number(1000),
     premium |-> Number(OrElse(option.callBid, 0)),
     volatility |-> Number(OrElse(option.iv, 200))]

\* validateForm, src/StrategyForm.js:31-52: the fields of newErrors; the
\* form is valid when there is none
validateForm(formData) ==
    (IF Falsy(formData.strike) \/ AtMost(formData.strike, 0) THEN {"strike"} ELSE {})
    \cup (IF Falsy(formData.quantity) \/ AtMost(formData.quantity, 0)
          THEN {"quantity"} ELSE {})
    \cup (IF Falsy(formData.premium) \/ LessThan(formData.premium, 0)
          THEN {"premium"} ELSE {})
    \cup (IF Falsy(formData.volatility) \/ LessThan(formData.volatility, 0)
             \/ MoreThan(formData.volatility, 5000)
          THEN {"volatility"} ELSE {})

\* strategyOption, src/StrategyForm.js:60-67 (id, a timestamp, is left out)
strategyOption(formData) ==
    [strike |-> parseFloat(formData.strike),
     type |-> formData.type,
     action |-> formData.action,
     quantity |-> parseInt(formData.quantity),
     premium |-> parseFloat(formData.premium),
     volatility |-> parseFloat(formData.volatility)]

\* newPremium of updatePremium, src/StrategyForm.js:88-97, for a type and action
newPremium(option, type, action) ==
    IF type = "call"
    THEN (IF action = "buy" THEN option.callAsk ELSE option.callBid)
    ELSE (IF action = "buy" THEN option.putAsk ELSE option.putBid)

\* a row of the option chain, as OptionChain hands it to onSelect,
\* src/unnamed/part_000:100-113: it has no type
Row(strike, callBid, callAsk, putBid, putAsk, iv) ==
    [strike |-> strike, callBid |-> callBid, callAsk |-> callAsk,
     putBid |-> putBid, putAsk |-> putAsk, iv |-> iv]

\* a row that carries the type handleOptionSelect compares,
\* src/StrategyScreen.js:57-59
TypedRow(strike, type, callBid, callAsk, putBid, putAsk, iv) ==
    [strike |-> strike, type |-> type, callBid |-> callBid, callAsk |-> callAsk,
     putBid |-> putBid, putAsk |-> putAsk, iv |-> iv]

\* the rows of optionChainData: 150 with both sides quoted and no type, and
\* 160 whose call has no bid, sent with a type
OptionChainData ==
    { Row(150000, 5000, 5200, 4800, 5000, 200),
      TypedRow(160000, "call", 0, 500, 10000, 10500, 250) }

\* the responses of getOptionChain, src/unnamed/part_000:189-198: the spot
\* price they carry, 0 for one that carries none
Responses ==
    { [currentPrice |-> 0], [currentPrice |-> 150000], [currentPrice |-> 160000] }

\* the texts a TextInput may give to handleInputChange, per field
FieldTexts ==
    [strike |-> { <<"0">>, <<"1", "5", "5", ".", "5">> },
     quantity |-> { <<"2">>, <<"0", ".", "5">>, <<"0">> },
     premium |-> { <<"0">>, <<"1", ".", "5">>, <<>> },
     volatility |-> { <<"5">>, <<"5", ".", "5">>, <<"0">> }]

MaxSelected == 2    \* legs selected at most
MaxEdits == 2       \* field changes in one visit of the form at most

\* StrategyForm not shown
NoRow == Row(0, 0, 0, 0, 0, 0)
NoFormData == InitialFormData(NoRow)
FormClosed ==
    [open |-> FALSE, option |-> NoRow, formData |-> NoFormData, errors |-> {},
     showAdvanced |-> FALSE, edits |-> 0, rejected |-> <<>>]

---------------------------------------------------------------------------
(* The Analysis component, src/Analysis.js:13-49.  The field              *)
(* volatilityImpact of analysisData is not read by any of the definitions  *)
(* below and is left out of the record.                                    *)

\* greeks: {} : every Greek is undefined
Undefined == [kind |-> "undefined", value |-> 0]
NoGreeks ==
    [delta |-> Undefined, gamma |-> Undefined, theta |-> Undefined,
     vega |-> Undefined, rho |-> Undefined]

InitialAnalysisData ==
    [greeks |-> NoGreeks, breakeven |-> <<>>, maxProfit |-> 0, maxLoss |-> 0,
     probabilityOfProfit |-> 0, riskReward |-> Finite(0), timeDecay |-> <<>>]

\* calculateAnalysis, src/Analysis.js:34-49: the value given to setAnalysisData
calculateAnalysis(options, spotPrice, random) ==
    LET maxProfit == MaxProfitOf[options]
        maxLoss == MaxLossOf[options]
    IN  [greeks |-> GreeksOf[<<options, spotPrice>>],
         breakeven |-> BreakevenOf[options],
         maxProfit |-> maxProfit,
         maxLoss |-> maxLoss,
         probabilityOfProfit |-> ProbabilityOfProfitOf[<<options, spotPrice, random>>],
         riskReward |-> Divide(maxProfit, Abs(maxLoss)),
         timeDecay |-> TimeDecayOf[<<options, spotPrice>>]]

\* the effect of src/Analysis.js:28-32, run after a render with these props
Effect(strat, spotPrice) ==
    IF strat.defined /\ Len(strat.options) > 0
    THEN \E random \in RandomRuns :
            /\ analysisData' = calculateAnalysis(strat.options, spotPrice, random)
            /\ draws' = random
    ELSE UNCHANGED <<analysisData, draws>>

\* calculateRiskScore, src/Analysis.js:538-551, on the analysisData it reads.
\* The score is held in millionths: |maxLoss| / 1000 is exact in that unit
\* (maxLoss is held in thousandths), probabilityOfProfit / 100 is ten times
\* the percentage held in thousandths, and the risk-reward term, held in
\* thousandths, is scaled by 1000.
calculateRiskScore(data) ==
    LET maxLossPercent == Abs(data.maxLoss)
        profitProbability == 10 * data.probabilityOfProfit
        riskReward == MathMin(data.riskReward, Finite(3000))
        riskScore ==
            MathMin(Finite(10000000),
                    Plus(Finite((maxLossPercent * 3)
                                + ((1000000 - profitProbability) * 4)),
                         Times(MathMax(Finite(0), Minus(Finite(2000), riskReward)),
                               2 * 1000)))
    IN  riskScore

FnIdle == [applied |-> FALSE, payoffs |-> <<>>, breakeven |-> <<>>,
           maxProfit |-> 0, maxLoss |-> 0, label |-> "",
           greeks |-> NoGreeks, timeDecay |-> <<>>]

Init ==
    /\ strategy = NoStrategy
    /\ currentPrice \in Spots
    /\ analysisData = InitialAnalysisData
    /\ draws = <<>>
    /\ fnOptions = <<>>
    /\ fnPrice = 0
    /\ fnOut = FnIdle
    /\ selectedOptions = <<>>
    /\ form = FormClosed
    /\ submitted = <<>>
    /\ screenCurrentPrice = 150000
    /\ payoffData = <<>>

\* the parent renders Analysis with a strategy object (a new object is a
\* changed dependency even when its content is the same)
SetStrategy(strat) ==
    /\ strategy' = strat
    /\ UNCHANGED currentPrice
    /\ Effect(strat, currentPrice)
    /\ UNCHANGED <<fnOptions, fnPrice, fnOut>>
    /\ UNCHANGED screenVars

\* the parent renders Analysis with another spot price
SetCurrentPrice(spotPrice) ==
    /\ spotPrice # currentPrice
    /\ currentPrice' = spotPrice
    /\ UNCHANGED strategy
    /\ Effect(strategy, spotPrice)
    /\ UNCHANGED <<fnOptions, fnPrice, fnOut>>
    /\ UNCHANGED screenVars

Next ==
    \/ \E strat \in Strategies : SetStrategy(strat)
    \/ \E spotPrice \in Spots : SetCurrentPrice(spotPrice)

Spec == Init /\ [][Next]_vars

---------------------------------------------------------------------------
(* The functions applied on their own to an option list and a price. *)

InitFn ==
    /\ strategy = NoStrategy
    /\ currentPrice = 150000
    /\ analysisData = InitialAnalysisData
    /\ draws = <<>>
    /\ fnOptions \in FnOptionLists
    /\ fnPrice \in FnPrices
    /\ fnOut = FnIdle
    /\ selectedOptions = <<>>
    /\ form = FormClosed
    /\ submitted = <<>>
    /\ screenCurrentPrice = 150000
    /\ payoffData = <<>>

Apply ==
    /\ ~fnOut.applied
    /\ fnOut' = [applied |-> TRUE,
                 payoffs |-> << BreakevenPayoff(fnOptions, fnPrice),
                                MaxProfitProfit(fnOptions, fnPrice),
                                MaxLossLoss(fnOptions, fnPrice),
                                ProbabilityPayoff(fnOptions, fnPrice),
                                ScreenPayoff(fnOptions, fnPrice) >>,
                 breakeven |-> BreakevenOf[fnOptions],
                 maxProfit |-> MaxProfitOf[fnOptions],
                 maxLoss |-> MaxLossOf[fnOptions],
                 label |-> determineStrategyType([defined |-> TRUE,
                                                  options |-> fnOptions]),
                 greeks |-> calculateGreeks(fnOptions, fnPrice),
                 timeDecay |-> calculateTimeDecay(fnOptions, fnPrice)]
    /\ UNCHANGED <<strategy, currentPrice, analysisData, draws, fnOptions, fnPrice>>
    /\ UNCHANGED screenVars

NextFn == Apply

SpecFn == InitFn /\ [][NextFn]_vars

---------------------------------------------------------------------------
(* StrategyScreen's option selection, src/StrategyScreen.js:56-73, its     *)
(* payoff curve and chain loading, src/StrategyScreen.js:30-48, 75-116,    *)
(* with                                                                    *)
(* StrategyForm, src/StrategyForm.js:16-102, 118-259.  form.rejected is    *)
(* history: the formData of the visit's last submit that failed validation.*)

InitScreen ==
    /\ strategy = NoStrategy
    /\ currentPrice = 150000
    /\ analysisData = InitialAnalysisData
    /\ draws = <<>>
    /\ fnOptions = <<>>
    /\ fnPrice = 0
    /\ fnOut = FnIdle
    /\ selectedOptions = <<>>
    /\ form = FormClosed
    /\ submitted = <<>>
    /\ screenCurrentPrice = 150000
    /\ payoffData = <<>>

\* option.type of a chain row: undefined
RowType(option) ==
    IF "type" \in DOMAIN option THEN option.type ELSE "undefined"

\* selectedOptions.findIndex(opt => opt.strike === option.strike &&
\* opt.type === option.type), counted from 1; 0 when there is none
findIndex(options, option) ==
    LET matching == {n \in 1..Len(options) :
                        /\ options[n].strike = Finite(option.strike)
                        /\ options[n].type = RowType(option)}
    IN  IF matching = {} THEN 0
        ELSE CHOOSE n \in matching : \A m \in matching : n <= m

\* prev.filter((_, index) => index !== existingIndex)
RECURSIVE FilterOut(_, _)
FilterOut(list, existingIndex) ==
    IF list = <<>> THEN <<>>
    ELSE IF existingIndex = 1 THEN Tail(list)
    ELSE <<Head(list)>> \o FilterOut(Tail(list), existingIndex - 1)

\* Number.prototype.toFixed(2), src/StrategyScreen.js:110-111: the text of
\* the number rounded to the hundredth (a half away from zero), held as its
\* sign and the hundredths it shows; "NaN" for NaN
toFixed(x) ==
    IF x.kind = "finite"
    THEN [kind |-> "text", sign |-> IF x.value < 0 THEN "-" ELSE "",
          hundredths |-> (Abs(x.value) + 5) \div 10]
    ELSE [kind |-> x.kind, sign |-> "", hundredths |-> 0]

steps == 50

\* priceRange of calculatePayoff, src/StrategyScreen.js:76-84: entry n is the
\* price of i = n - 1
priceRange(price) ==
    LET minPrice == (price * 7) \div 10
        maxPrice == (price * 13) \div 10
    IN  [n \in 1..(steps + 1) |->
            minPrice + ((maxPrice - minPrice) * (n - 1)) \div steps]

\* a leg of selectedOptions whose strike, premium and quantity are numbers
\* other than NaN (parseFloat and parseInt return no infinity for the texts of
\* the form)
FiniteLeg(option) ==
    /\ option.strike.kind = "finite"
    /\ option.premium.kind = "finite"
    /\ option.quantity.kind = "finite"

PlainLeg(option) ==
    [strike |-> option.strike.value, type |-> option.type,
     action |-> option.action, quantity |-> option.quantity.value,
     premium |-> option.premium.value]

\* totalPayoff of calculatePayoff, src/StrategyScreen.js:87-107: NaN as soon
\* as a leg holds a NaN
totalPayoff(options, price) ==
    IF \A n \in 1..Len(options) : FiniteLeg(options[n])
    THEN Finite(ScreenPayoff([n \in 1..Len(options) |-> PlainLeg(options[n])],
                             price))
    ELSE NaN

\* payoffPoints of calculatePayoff, src/StrategyScreen.js:86-113
calculatePayoff(options, price) ==
    LET range == priceRange(price)
    IN  [n \in 1..(steps + 1) |->
            [price |-> toFixed(Finite(range[n])),
             payoff |-> toFixed(totalPayoff(options, range[n]))]]

\* the effect on [selectedOptions, currentPrice], src/StrategyScreen.js:30-34:
\* the payoffData it leaves
PayoffEffect(options, price, data) ==
    IF Len(options) > 0 THEN calculatePayoff(options, price) ELSE data

\* loadOptionChain, src/StrategyScreen.js:36-48, on the arrival of the
\* response data (its options are the rows of OptionChainData); the effect
\* runs when currentPrice has changed
loadOptionChain(data) ==
    /\ screenCurrentPrice' = OrElse(data.currentPrice, 150000)
    /\ payoffData' =
           IF screenCurrentPrice' # screenCurrentPrice
           THEN PayoffEffect(selectedOptions, screenCurrentPrice', payoffData)
           ELSE payoffData
    /\ UNCHANGED <<selectedOptions, form, submitted>>
    /\ UNCHANGED <<strategy, currentPrice, analysisData, draws, fnOptions, fnPrice, fnOut>>

\* the user taps a row of the option chain
handleOptionSelect(option) ==
    /\ ~form.open
    /\ LET existingIndex == findIndex(selectedOptions, option)
       IN  IF existingIndex >= 1
           THEN /\ selectedOptions' = FilterOut(selectedOptions, existingIndex)
                /\ submitted' = FilterOut(submitted, existingIndex)
                /\ payoffData' = PayoffEffect(selectedOptions', screenCurrentPrice,
                                              payoffData)
                /\ UNCHANGED form
           ELSE /\ Len(selectedOptions) < MaxSelected
                /\ form' = [open |-> TRUE, option |-> option,
                            formData |-> InitialFormData(option), errors |-> {},
                            showAdvanced |-> FALSE, edits |-> 0, rejected |-> <<>>]
                /\ UNCHANGED <<selectedOptions, submitted, payoffData>>
    /\ UNCHANGED screenCurrentPrice
    /\ UNCHANGED <<strategy, currentPrice, analysisData, draws, fnOptions, fnPrice, fnOut>>

\* a TextInput's onChangeText: handleInputChange(field, value),
\* src/StrategyForm.js:73-86; the volatility input is shown with the
\* advanced options only
handleInputChange(field, value) ==
    /\ form.open
    /\ form.edits < MaxEdits
    /\ field = "volatility" => form.showAdvanced
    /\ form.formData[field] # Text(value)
    /\ form' = [form EXCEPT !.formData[field] = Text(value),
                            !.errors = @ \ {field},
                            !.edits = @ + 1]
    /\ UNCHANGED <<selectedOptions, submitted, screenCurrentPrice, payoffData>>
    /\ UNCHANGED <<strategy, currentPrice, analysisData, draws, fnOptions, fnPrice, fnOut>>

\* the Advanced Options switch, src/StrategyForm.js:193-198
setShowAdvanced ==
    /\ form.open
    /\ form' = [form EXCEPT !.showAdvanced = ~@]
    /\ UNCHANGED <<selectedOptions, submitted, screenCurrentPrice, payoffData>>
    /\ UNCHANGED <<strategy, currentPrice, analysisData, draws, fnOptions, fnPrice, fnOut>>

\* the type Picker's onValueChange, src/StrategyForm.js:121-124:
\* handleInputChange('type', value), then updatePremium(), which reads type
\* and action from the formData of the render the handler was made in
PickType(value) ==
    /\ form.open
    /\ form.edits < MaxEdits
    /\ value # form.formData.type
    /\ form' = [form EXCEPT
                   !.formData.type = value,
                   !.formData.premium =
                       Number(OrElse(newPremium(form.option, form.formData.type,
                                                form.formData.action), 0)),
                   !.edits = @ + 1]
    /\ UNCHANGED <<selectedOptions, submitted, screenCurrentPrice, payoffData>>
    /\ UNCHANGED <<strategy, currentPrice, analysisData, draws, fnOptions, fnPrice, fnOut>>

\* the action Picker's onValueChange, src/StrategyForm.js:136-139
PickAction(value) ==
    /\ form.open
    /\ form.edits < MaxEdits
    /\ value # form.formData.action
    /\ form' = [form EXCEPT
                   !.formData.action = value,
                   !.formData.premium =
                       Number(OrElse(newPremium(form.option, form.formData.type,
                                                form.formData.action), 0)),
                   !.edits = @ + 1]
    /\ UNCHANGED <<selectedOptions, submitted, screenCurrentPrice, payoffData>>
    /\ UNCHANGED <<strategy, currentPrice, analysisData, draws, fnOptions, fnPrice, fnOut>>

\* handleSubmit, src/StrategyForm.js:54-71, with the onConfirm of
\* src/StrategyScreen.js:68-70 and navigation.goBack()
handleSubmit ==
    /\ form.open
    /\ LET newErrors == validateForm(form.formData)
       IN  IF newErrors # {}
           THEN /\ form' = [form EXCEPT !.errors = newErrors,
                                        !.rejected = <<form.formData>>]
                /\ UNCHANGED <<selectedOptions, submitted, payoffData>>
           ELSE /\ selectedOptions' =
                       Append(selectedOptions, strategyOption(form.formData))
                /\ submitted' = Append(submitted, [option |-> form.option,
                                                   formData |-> form.formData])
                /\ payoffData' = PayoffEffect(selectedOptions', screenCurrentPrice,
                                              payoffData)
                /\ form' = FormClosed
    /\ UNCHANGED screenCurrentPrice
    /\ UNCHANGED <<strategy, currentPrice, analysisData, draws, fnOptions, fnPrice, fnOut>>

\* the Cancel button, src/StrategyForm.js:247-252
Cancel ==
    /\ form.open
    /\ form' = FormClosed
    /\ UNCHANGED <<selectedOptions, submitted, screenCurrentPrice, payoffData>>
    /\ UNCHANGED <<strategy, currentPrice, analysisData, draws, fnOptions, fnPrice, fnOut>>

NextScreen ==
    \/ \E option \in OptionChainData : handleOptionSelect(option)
    \/ \E field \in DOMAIN FieldTexts :
           \E value \in FieldTexts[field] : handleInputChange(field, value)
    \/ setShowAdvanced
    \/ \E value \in {"call", "put"} : PickType(value)
    \/ \E value \in {"buy", "sell"} : PickAction(value)
    \/ handleSubmit
    \/ Cancel
    \/ \E data \in Responses : loadOptionChain(data)

SpecScreen == InitScreen /\ [][NextScreen]_vars

---------------------------------------------------------------------------
(* The payoff of the specification: payoffAt per leg, and the total as the *)
(* sum over the legs of quantity x payoffAt.                               *)

PayoffAt(leg, price) ==
    CASE leg.type = "call" /\ leg.action = "buy" ->
            Max(0, price - leg.strike) - leg.premium
      [] leg.type = "call" /\ leg.action = "sell" ->
            leg.premium - Max(0, price - leg.strike)
      [] leg.type = "put" /\ leg.action = "buy" ->
            Max(0, leg.strike - price) - leg.premium
      [] leg.type = "put" /\ leg.action = "sell" ->
            leg.premium - Max(0, leg.strike - price)

RECURSIVE TotalPayoffAt(_, _)
TotalPayoffAt(legs, price) ==
    IF legs = <<>> THEN 0
    ELSE Head(legs).quantity * PayoffAt(Head(legs), price)
         + TotalPayoffAt(Tail(legs), price)

Largest(S) == CHOOSE m \in S : \A x \in S : x <= m
Smallest(S) == CHOOSE m \in S : \A x \in S : m <= x

IntegerPrices == {1000 * k : k \in 50..250}
HalfPrices == {500 * k : k \in 100..500}

Analysed == strategy.defined /\ Len(strategy.options) > 0

---------------------------------------------------------------------------
\* C1: for every list of legs, the empty list included,
\* calculateMaxLoss(options) <= 0 <= calculateMaxProfit(options).
C1_LossBelowZeroBelowProfit ==
    fnOut.applied => fnOut.maxLoss <= 0 /\ 0 <= fnOut.maxProfit

\* a strategy that loses somewhere on the sweep and gains somewhere else
C1_Witness ==
    /\ fnOut.applied
    /\ fnOut.maxLoss < 0
    /\ fnOut.maxProfit > 0

\* C2: each of the five payoff loops computes, for every leg list and price,
\* the sum over the legs of quantity x payoffAt(leg, price).
C2_PayoffLoopsAgree ==
    fnOut.applied =>
        \A i \in 1..5 : fnOut.payoffs[i] = TotalPayoffAt(fnOptions, fnPrice)

\* three legs, a sold call of quantity 2 and a bought put among them, at 155.2
C2_Witness ==
    /\ fnOut.applied
    /\ Len(fnOptions) = 3
    /\ fnPrice = 155200
    /\ fnOut.payoffs[5] # 0

\* C3: after an analysis, maxProfit is max(0, largest total payoff over the
\* integer prices 50..250) and maxLoss is min(0, smallest total payoff over
\* them), whatever the spot price is.
C3_SweepExtremes ==
    Analysed =>
        LET payoffs == {TotalPayoffAt(strategy.options, p) : p \in IntegerPrices}
        IN  /\ analysisData.maxProfit = Max(0, Largest(payoffs))
            /\ analysisData.maxLoss = Min(0, Smallest(payoffs))

\* the long call 150 at 5 analysed at the spot 160: 95 at the price 250, -5 below 150
C3_Witness ==
    /\ Analysed
    /\ currentPrice = 160000
    /\ analysisData.maxProfit = 95000
    /\ analysisData.maxLoss = -5000

\* C4: calculateBreakeven returns the sample prices 50, 50.5, ..., 250 whose
\* total payoff is within 0.01 of zero, every one of them, in strictly
\* ascending order.
C4_BreakevenSamples ==
    fnOut.applied =>
        LET b == fnOut.breakeven
        IN  /\ \A i \in 1..(Len(b) - 1) : b[i] < b[i + 1]
            /\ {b[i] : i \in 1..Len(b)} =
                   {p \in HalfPrices : Abs(TotalPayoffAt(fnOptions, p)) < 10}

\* a payoff flat and near zero over a range: neighbouring samples are all reported
C4_Witness ==
    /\ fnOut.applied
    /\ Len(fnOut.breakeven) >= 3
    /\ fnOut.breakeven[2] = fnOut.breakeven[1] + 500
    /\ fnOut.breakeven[3] = fnOut.breakeven[2] + 500

\* C5: for a single bought call with strike K and premium p, K + p in
\* [50, 250], calculateBreakeven reports a price within 0.5 of K + p.
C5_LongCallBreakeven ==
    (/\ fnOut.applied
     /\ Len(fnOptions) = 1
     /\ fnOptions[1].type = "call"
     /\ fnOptions[1].action = "buy"
     /\ fnOptions[1].strike + fnOptions[1].premium >= 50000
     /\ fnOptions[1].strike + fnOptions[1].premium <= 250000)
    => \E i \in 1..Len(fnOut.breakeven) :
           Abs(fnOut.breakeven[i] - (fnOptions[1].strike + fnOptions[1].premium)) <= 500

\* the bull call spreads of C6
IsBullCallSpread(legs) ==
    /\ Len(legs) = 2
    /\ legs[1].type = "call" /\ legs[1].action = "buy" /\ legs[1].quantity = 1
    /\ legs[2].type = "call" /\ legs[2].action = "sell" /\ legs[2].quantity = 1
    /\ legs[1].strike % 1000 = 0 /\ legs[2].strike % 1000 = 0
    /\ legs[1].strike < legs[2].strike
    /\ legs[1].strike >= 50000 /\ legs[2].strike <= 250000
    /\ legs[1].premium - legs[2].premium >= 0
    /\ legs[1].premium - legs[2].premium <= legs[2].strike - legs[1].strike

\* C6: for a bull call spread (bought call K1 at p1, sold call K2 at p2,
\* quantity 1 each, K1 < K2 in [50, 250], 0 <= p1 - p2 <= K2 - K1), maxProfit
\* is (K2 - K1) - (p1 - p2), maxLoss is -(p1 - p2), the label is Call Spread.
C6_BullCallSpread ==
    (fnOut.applied /\ IsBullCallSpread(fnOptions)) =>
        LET width == fnOptions[2].strike - fnOptions[1].strike
            debit == fnOptions[1].premium - fnOptions[2].premium
        IN  /\ fnOut.maxProfit = width - debit
            /\ fnOut.maxLoss = 0 - debit
            /\ fnOut.label = "Call Spread"

\* 150 at 5 against 160 at 2: maxProfit 7, maxLoss -3
C6_Witness ==
    /\ fnOut.applied
    /\ IsBullCallSpread(fnOptions)
    /\ fnOptions[1].strike = 150000 /\ fnOptions[1].premium = 5000
    /\ fnOptions[2].strike = 160000 /\ fnOptions[2].premium = 2000
    /\ fnOut.maxProfit = 7000
    /\ fnOut.maxLoss = -3000

\* C7: whenever the strategy has zero legs, the analysis result held is
\* degenerate: maxProfit 0, maxLoss 0, no breakeven, probabilityOfProfit 0.
C7_EmptyStrategyDegenerate ==
    (strategy.defined /\ Len(strategy.options) = 0) =>
        /\ analysisData.maxProfit = 0
        /\ analysisData.maxLoss = 0
        /\ analysisData.breakeven = <<>>
        /\ analysisData.probabilityOfProfit = 0

\* the price drawn by trial i of the last run
TrialPrice(i) == RandomPrice(currentPrice, RandomAt(draws, i))

\* C8: the probability of profit is 100 x (the number of the 1000 trials whose
\* total payoff is strictly positive) / 1000; it lies in [0, 100] and is 0 when
\* no price a trial can draw gives a positive payoff.
C8_ProbabilityOfProfit ==
    Analysed =>
        LET profitable == {i \in 0..999 :
                              TotalPayoffAt(strategy.options, TrialPrice(i)) > 0}
        IN  /\ analysisData.probabilityOfProfit = (100000 * Cardinality(profitable)) \div 1000
            /\ analysisData.probabilityOfProfit >= 0
            /\ analysisData.probabilityOfProfit <= 100000
            /\ (\A u \in 0..999 :
                   TotalPayoffAt(strategy.options, RandomPrice(currentPrice, u)) <= 0)
               => analysisData.probabilityOfProfit = 0

\* a third of the draws is profitable, and the count is not a multiple of 10
C8_Witness ==
    /\ Analysed
    /\ analysisData.probabilityOfProfit = 33400

\* C9: two analysis runs on the same strategy and spot produce the same
\* probabilityOfProfit and the same whole result.
C9_RunsAgree ==
    [][ (Analysed /\ strategy' = strategy /\ currentPrice' = currentPrice)
            => analysisData' = analysisData ]_vars

\* C10: when an analysis computes maxLoss = 0, the riskReward it stores is an
\* explicit undefined sentinel, neither Infinity nor NaN.
C10_RiskRewardSentinel ==
    (Analysed /\ analysisData.maxLoss = 0) =>
        /\ analysisData.riskReward.kind = "undefined"
        /\ analysisData.riskReward.kind \notin {"Infinity", "-Infinity", "NaN"}

\* the risk score of the claims, in millionths: cappedRiskReward is
\* min(riskReward, 3), and 3 when maxLoss = 0
ClaimedRiskScore(data) ==
    LET cappedRiskReward ==
            IF data.maxLoss = 0 \/ data.riskReward.kind # "finite" THEN 3000
            ELSE Min(data.riskReward.value, 3000)
    IN  Min(10000000,
            3 * Abs(data.maxLoss)
            + 4 * (1000000 - 10 * data.probabilityOfProfit)
            + 2 * 1000 * Max(0, 2000 - cappedRiskReward))

\* C11: after an analysis, calculateRiskScore is min(10, |maxLoss|/1000 x 3
\* + (1 - probabilityOfProfit/100) x 4 + max(0, 2 - cappedRiskReward) x 2),
\* cappedRiskReward being min(riskReward, 3) and 3 whenever maxLoss = 0,
\* whether maxProfit is positive or 0.
C11_RiskScoreFormula ==
    Analysed =>
        calculateRiskScore(analysisData) = Finite(ClaimedRiskScore(analysisData))

\* C12: in every reachable state of Analysis, the initial one included,
\* calculateRiskScore returns a number in [0, 10].
C12_RiskScoreInRange ==
    LET riskScore == calculateRiskScore(analysisData)
    IN  /\ riskScore.kind = "finite"
        /\ riskScore.value >= 0
        /\ riskScore.value <= 10000000

\* the label of the claims for one leg
SingleLegLabel(leg) ==
    CASE leg.action = "buy" /\ leg.type = "call" -> "Long Call"
      [] leg.action = "buy" /\ leg.type = "put" -> "Long Put"
      [] leg.action = "sell" /\ leg.type = "call" -> "Short Call"
      [] leg.action = "sell" /\ leg.type = "put" -> "Short Put"

\* C13: the label depends only on the number of legs and their type and
\* action: one leg gives Long/Short Call/Put; two legs give Call Spread when
\* both are calls, Put Spread when both are puts, Straddle/Strangle otherwise,
\* whatever the actions, strikes and premiums; more than two legs give
\* Complex Strategy.
C13_StrategyLabel ==
    (fnOut.applied /\ Len(fnOptions) >= 1) =>
        fnOut.label =
            IF Len(fnOptions) = 1 THEN SingleLegLabel(fnOptions[1])
            ELSE IF Len(fnOptions) = 2
            THEN LET types == {fnOptions[1].type, fnOptions[2].type}
                 IN  IF types = {"call"} THEN "Call Spread"
                     ELSE IF types = {"put"} THEN "Put Spread"
                     ELSE "Straddle/Strangle"
            ELSE "Complex Strategy"

\* two puts of different action, strike, quantity and premium
C13_Witness ==
    /\ fnOut.applied
    /\ Len(fnOptions) = 2
    /\ fnOptions[1].type = "put" /\ fnOptions[2].type = "put"
    /\ fnOptions[1].action # fnOptions[2].action
    /\ fnOptions[1].strike # fnOptions[2].strike
    /\ fnOptions[1].premium # fnOptions[2].premium
    /\ fnOut.label = "Put Spread"

GreekNames == {"delta", "gamma", "theta", "vega", "rho"}

\* one leg's Greek of the claims: the Black-Scholes Greek at the spot with
\* T = 30/365, r = 0.05 and the leg's own volatility, 0.2 when it has none
LegGreek(leg, spotPrice, name) ==
    calculateBlackScholesGreeks(spotPrice, leg.strike, (30 * 1000000) \div 365, 500,
        IF "volatility" \in DOMAIN leg THEN leg.volatility ELSE 200,
        leg.type)[name]

\* the sum over the legs of (+1 if bought else -1) x quantity x the leg's Greek
RECURSIVE SignedGreekSum(_, _, _)
SignedGreekSum(legs, spotPrice, name) ==
    IF legs = <<>> THEN Finite(0)
    ELSE Plus(Times(LegGreek(Head(legs), spotPrice, name),
                    IF Head(legs).action = "buy" THEN Head(legs).quantity
                    ELSE 0 - Head(legs).quantity),
              SignedGreekSum(Tail(legs), spotPrice, name))

\* legs i and j are identical but for one being bought and the other sold
OppositeLegs(legs, i, j) ==
    /\ legs[i].action = "buy"
    /\ legs[j].action = "sell"
    /\ [legs[j] EXCEPT !.action = "buy"] = legs[i]

\* the list without its legs i and j
WithoutLegs(legs, i, j) ==
    LET kept == {n \in 1..Len(legs) : n # i /\ n # j}
        RECURSIVE Pick(_)
        Pick(n) == IF n > Len(legs) THEN <<>>
                   ELSE IF n \in kept THEN <<legs[n]>> \o Pick(n + 1)
                   ELSE Pick(n + 1)
    IN  Pick(1)

RECURSIVE SignedThetaSum(_, _, _)
SignedThetaSum(legs, spotPrice, timeToExpiry) ==
    IF legs = <<>> THEN Finite(0)
    ELSE LET leg == Head(legs)
             theta == calculateBlackScholesGreeks(spotPrice, leg.strike,
                          timeToExpiry, 500,
                          IF "volatility" \in DOMAIN leg THEN leg.volatility ELSE 200,
                          leg.type).theta
         IN  Plus(Times(theta, IF leg.action = "buy" THEN leg.quantity
                               ELSE 0 - leg.quantity),
                  SignedThetaSum(Tail(legs), spotPrice, timeToExpiry))

\* C15: calculateTimeDecay returns exactly 31 points, days = 0, 1, ..., 30 in
\* that order; the point with days = d carries the aggregate theta at
\* timeToExpiry = (30 - d)/365, r = 0.05, each leg's own volatility and the
\* current spot price.
C15_TimeDecaySeries ==
    fnOut.applied =>
        /\ Len(fnOut.timeDecay) = 31
        /\ \A i \in 1..Len(fnOut.timeDecay) :
               LET point == fnOut.timeDecay[i]
               IN  /\ point.days = i - 1
                   /\ point.theta =
                          SignedThetaSum(fnOptions, fnPrice,
                                         ((30 - point.days) * 1000000) \div 365)

\* two legs of different volatility at the spot 155.2: theta moves between
\* the first point and the point one day before expiry
C15_Witness ==
    /\ fnOut.applied
    /\ fnPrice = 155200
    /\ Len(fnOptions) = 2
    /\ "volatility" \notin DOMAIN fnOptions[1]
    /\ fnOptions[2].volatility = 350
    /\ Len(fnOut.timeDecay) = 31
    /\ fnOut.timeDecay[1].theta.kind = "finite"
    /\ fnOut.timeDecay[30].theta.kind = "finite"
    /\ fnOut.timeDecay[1].theta.value # 0
    /\ fnOut.timeDecay[30].theta.value # fnOut.timeDecay[1].theta.value

\* C16: after the analysis of a non-empty strategy of validated legs, every
\* aggregate Greek and every theta of the time-decay series, the last point
\* (days = 30) included, is finite: neither NaN nor an infinity.
C16_GreeksFinite ==
    Analysed =>
        /\ \A name \in GreekNames : analysisData.greeks[name].kind = "finite"
        /\ \A i \in 1..Len(analysisData.timeDecay) :
               analysisData.timeDecay[i].theta.kind = "finite"

\* the number a field of the form stands for
FieldValue(x) == parseFloat(x)

\* the validity of the claims: strike > 0, quantity > 0, premium >= 0 and
\* 0 < volatility <= 5
ValidFields(formData) ==
    /\ FieldValue(formData.strike).kind = "finite"
    /\ FieldValue(formData.strike).value > 0
    /\ FieldValue(formData.quantity).kind = "finite"
    /\ FieldValue(formData.quantity).value > 0
    /\ FieldValue(formData.premium).kind = "finite"
    /\ FieldValue(formData.premium).value >= 0
    /\ FieldValue(formData.volatility).kind = "finite"
    /\ FieldValue(formData.volatility).value > 0
    /\ FieldValue(formData.volatility).value <= 5000

\* C17: validateForm rejects a form exactly when strike <= 0, quantity <= 0,
\* premium < 0 or volatility is outside (0, 5]: a form that handleSubmit
\* rejected has such a field, and every form it accepted has none (a
\* premium of 0 and a volatility of 5 are accepted).
C17_ValidationRule ==
    /\ \A n \in 1..Len(form.rejected) : ~ValidFields(form.rejected[n])
    /\ \A n \in 1..Len(submitted) : ValidFields(submitted[n].formData)

\* C18: every leg handed to onConfirm, so every leg of selectedOptions, has
\* strike > 0, an integer quantity > 0, premium >= 0 and 0 < volatility <= 5,
\* and each stored value is the value that was validated.
C18_SelectedLegsValid ==
    \A n \in 1..Len(selectedOptions) :
        LET leg == selectedOptions[n]
            validated == submitted[n].formData
        IN  /\ leg.strike.kind = "finite" /\ leg.strike.value > 0
            /\ leg.quantity.kind = "finite" /\ leg.quantity.value > 0
            /\ leg.premium.kind = "finite" /\ leg.premium.value >= 0
            /\ leg.volatility.kind = "finite"
            /\ leg.volatility.value > 0 /\ leg.volatility.value <= 5000
            /\ leg.strike = ToNumber(validated.strike)
            /\ Times(leg.quantity, 1000) = ToNumber(validated.quantity)
            /\ leg.premium = ToNumber(validated.premium)
            /\ leg.volatility = ToNumber(validated.volatility)

\* the rows for which a leg confirmed through the form is selected
ConfirmedRows == {submitted[n].option : n \in 1..Len(submitted)}

\* C20: a tap on a row for which a leg was confirmed through the form
\* removes that leg, leaves the others and does not open the form; a tap on
\* another row opens the form and leaves selectedOptions alone; leaving the
\* form appends at most one leg, at the end.
C20_SelectionToggles ==
    [][ /\ (~form.open /\ form'.open) =>
               /\ form'.option \notin ConfirmedRows
               /\ selectedOptions' = selectedOptions
        /\ (~form.open /\ ~form'.open /\ selectedOptions' # selectedOptions) =>
               \E n \in 1..Len(selectedOptions) :
                   /\ submitted[n].option \in OptionChainData
                   /\ selectedOptions' = FilterOut(selectedOptions, n)
        /\ (form.open /\ ~form'.open) =>
               \/ selectedOptions' = selectedOptions
               \/ /\ Len(selectedOptions') = Len(selectedOptions) + 1
                  /\ SubSeq(selectedOptions', 1, Len(selectedOptions)) = selectedOptions
      ]_vars

\* the leg lists that are fnOptions in another order
Reordered(options) ==
    {[n \in 1..Len(options) |-> options[f[n]]] : f \in Permutations(1..Len(options))}

C21_PremiumFollowsPicker ==
    [][ (/\ form.open
         /\ form'.open
         /\ \/ form'.formData.type # form.formData.type
            \/ form'.formData.action # form.formData.action)
        => form'.formData.premium =
               Number(OrElse(newPremium(form.option, form'.formData.type,
                                        form'.formData.action), 0))
      ]_vars

\* the value a point's text shows, in thousandths
Shown(text) == (IF text.sign = "-" THEN -1 ELSE 1) * text.hundredths * 10

\* the text shows the value to the hundredth
Shows(text, value) ==
    /\ text.kind = "text"
    /\ Abs(Shown(text) - value) <= 5

\* 0.7 x currentPrice + i x (0.6 x currentPrice) / 50
CurvePrice(price, i) == (7 * price) \div 10 + (i * ((6 * price) \div 10)) \div 50

\* the selected legs with their numbers as plain thousandths
SelectedLegs ==
    [n \in 1..Len(selectedOptions) |->
        [strike |-> selectedOptions[n].strike.value,
         type |-> selectedOptions[n].type,
         action |-> selectedOptions[n].action,
         quantity |-> selectedOptions[n].quantity.value,
         premium |-> selectedOptions[n].premium.value]]

\* payoffData is the curve of the selected legs at the current price
CurveOfSelection ==
    /\ Len(payoffData) = 51
    /\ \A i \in 0..50 :
           /\ Shows(payoffData[i + 1].price, CurvePrice(screenCurrentPrice, i))
           /\ Shows(payoffData[i + 1].payoff,
                    TotalPayoffAt(SelectedLegs, CurvePrice(screenCurrentPrice, i)))
    /\ \A i \in 1..50 :
           Shown(payoffData[i].price) < Shown(payoffData[i + 1].price)

====
